---- MODULE Spec2Model ----
(***************************************************************************)
(* Model of equation_solver.py: parse_question, the matrix builder inside  *)
(* solve_equations_manual, gauss_jordan, check_rank, the classifier and    *)
(* _generate_infinite_solutions.                                           *)
(*                                                                         *)
(* Numbers are exact rationals <<numerator, denominator>> in lowest terms  *)
(* with a positive denominator.  Python lists are objects: a matrix is a   *)
(* sequence of row references into `heap`, so that in-place mutation, row  *)
(* swaps and copies are told apart.                                        *)
(***************************************************************************)
EXTENDS Integers, Sequences, FiniteSets, TLC

\* ------------------------------------------------------------------ bounds
MaxEqs == 3
MaxVars == 4
MaxCells == 10
MaxWeight == 3
MaxSparseTerms == 2

\* ------------------------------------------------------- exact arithmetic
Abs(n) == IF n < 0 THEN -n ELSE n

RECURSIVE GCD(_, _)
GCD(a, b) == IF b = 0 THEN a ELSE GCD(b, a % b)

Rat(n, d) ==
    LET g == GCD(Abs(n), Abs(d))
        s == IF d < 0 THEN -1 ELSE 1
    IN  <<(s * n) \div g, (s * d) \div g>>

Int2Rat(n) == <<n, 1>>
Zero == <<0, 1>>
One == <<1, 1>>

RAdd(x, y) == Rat(x[1] * y[2] + y[1] * x[2], x[2] * y[2])
RSub(x, y) == Rat(x[1] * y[2] - y[1] * x[2], x[2] * y[2])
RMul(x, y) == Rat(x[1] * y[1], x[2] * y[2])
RDiv(x, y) == Rat(x[1] * y[2], x[2] * y[1])

\* abs(x) > abs(y)
AbsGreater(x, y) == Abs(x[1]) * y[2] > Abs(y[1]) * x[2]

\* abs(x) > 1e-10.  A nonzero rational n/d has abs >= 1/d, and every
\* denominator that the bounded inputs produce is far below 10^10, so the
\* tolerance test separates exactly zero from nonzero.
AboveTol(x) == x[1] # 0

\* abs(x) < 1e-10
BelowTol(x) == x[1] = 0

Min(a, b) == IF a < b THEN a ELSE b

\* ------------------------------------------------------------ list objects
\* The matrix (a list of row references) read through the heap.
Deref(h, M) == [r \in 1..Len(M) |-> h[M[r]]]

\* Fresh row objects appended to the heap, and the references to them.
Alloc(h, rows) == h \o rows
NewRefs(h, k) == [r \in 1..k |-> Len(h) + r]

SwapRefs(M, a, b) ==
    [r \in 1..Len(M) |-> IF r = a THEN M[b] ELSE IF r = b THEN M[a] ELSE M[r]]

\* row - factor * pivotrow, entry by entry
RowSubtract(row, factor, pivotrow) ==
    [k \in 1..Len(row) |-> RSub(row[k], RMul(factor, pivotrow[k]))]

\* ------------------------------------------------------------ gauss_jordan
\* Slip: `>=` for `>` in the pivot search, so that ties go to the last row.
RECURSIVE FindPivotLast(_, _, _, _, _)
FindPivotLast(h, M, i, j, pivot_row) ==
    IF j > Len(M) THEN pivot_row
    ELSE IF ~AbsGreater(h[M[pivot_row]][i], h[M[j]][i])
         THEN FindPivotLast(h, M, i, j + 1, j)
         ELSE FindPivotLast(h, M, i, j + 1, pivot_row)

\* Pivot search of gauss_jordan: rows j = from..rows against the best so far.
RECURSIVE FindPivot(_, _, _, _, _)
FindPivot(h, M, i, j, pivot_row) ==
    IF j > Len(M) THEN pivot_row
    ELSE IF AbsGreater(h[M[j]][i], h[M[pivot_row]][i])
         THEN FindPivot(h, M, i, j + 1, j)
         ELSE FindPivot(h, M, i, j + 1, pivot_row)

\* Number of iterations of the pivot loop: min(rows, cols - 1).
GJIterations(h, M) == Min(Len(M), Len(h[M[1]]) - 1)

\* The matrix after the swap of iteration i.
GJSwap(h, M, i) ==
    LET pivot_row == FindPivot(h, M, i, i + 1, i)
    IN  IF pivot_row # i THEN SwapRefs(M, i, pivot_row) ELSE M

\* Slip: elimination only below the pivot row (range(i + 1, rows)).
GJEliminateBelow(h, M, i) ==
    LET pivot == h[M[i]][i]
        scaled == [k \in 1..Len(h[M[i]]) |-> RDiv(h[M[i]][k], pivot)]
        others == {M[j] : j \in (i + 1)..Len(M)}
    IN  [id \in 1..Len(h) |->
            IF id = M[i] THEN scaled
            ELSE IF id \in others /\ AboveTol(h[id][i])
                 THEN RowSubtract(h[id], h[id][i], scaled)
                 ELSE h[id]]

\* The heap after scaling the pivot row and eliminating column i elsewhere.
GJEliminate(h, M, i) ==
    LET pivot == h[M[i]][i]
        scaled == [k \in 1..Len(h[M[i]]) |-> RDiv(h[M[i]][k], pivot)]
        others == {M[j] : j \in (1..Len(M)) \ {i}}
    IN  [id \in 1..Len(h) |->
            IF id = M[i] THEN scaled
            ELSE IF id \in others /\ AboveTol(h[id][i])
                 THEN RowSubtract(h[id], h[id][i], scaled)
                 ELSE h[id]]

\* One iteration of the pivot loop: [heap, M].
GJIteration(h, M, i) ==
    LET M1 == GJSwap(h, M, i)
    IN  IF BelowTol(h[M1[i]][i])
        THEN [heap |-> h, M |-> M1]
        ELSE [heap |-> GJEliminate(h, M1, i), M |-> M1]

\* gauss_jordan as a whole, from iteration i on.
RECURSIVE gauss_jordan_from(_, _, _)
gauss_jordan_from(h, M, i) ==
    IF i > GJIterations(h, M) THEN [heap |-> h, M |-> M]
    ELSE LET s == GJIteration(h, M, i)
         IN  gauss_jordan_from(s.heap, s.M, i + 1)

gauss_jordan(h, M) == gauss_jordan_from(h, M, 1)

\* -------------------------------------------------------------- check_rank
\* Slip: temp_matrix = matrix[:], a new list of the same row objects.
CopyRowsAlias(h, M) == [heap |-> h, temp |-> M]

\* temp_matrix = [row[:] for row in matrix]: new row objects, same contents.
CopyRows(h, M) ==
    [heap |-> Alloc(h, Deref(h, M)), temp |-> NewRefs(h, Len(M))]

\* First row at or below `rank` (0-based count) with a nonzero entry in col;
\* 0 stands for the code's -1.
RECURSIVE RankPivot(_, _, _, _)
RankPivot(h, T, col, row) ==
    IF row > Len(T) THEN 0
    ELSE IF AboveTol(h[T[row]][col]) THEN row
    ELSE RankPivot(h, T, col, row + 1)

\* Slip: rank += 1 also for a column without a pivot.
RankColumnAlways(h, T, rank, col) ==
    LET pivot_row == RankPivot(h, T, col, rank + 1)
    IN  IF pivot_row = 0 THEN [heap |-> h, temp |-> T, rank |-> rank + 1]
        ELSE LET T1 == IF pivot_row # rank + 1
                       THEN SwapRefs(T, rank + 1, pivot_row) ELSE T
                 prow == h[T1[rank + 1]]
                 others == {T1[r] : r \in (1..Len(T1)) \ {rank + 1}}
                 h1 == [id \in 1..Len(h) |->
                          IF id \in others /\ AboveTol(h[id][col])
                          THEN RowSubtract(h[id], RDiv(h[id][col], prow[col]), prow)
                          ELSE h[id]]
             IN  [heap |-> h1, temp |-> T1, rank |-> rank + 1]

\* One iteration of the column loop: [heap, temp, rank].
RankColumn(h, T, rank, col) ==
    LET pivot_row == RankPivot(h, T, col, rank + 1)
    IN  IF pivot_row = 0 THEN [heap |-> h, temp |-> T, rank |-> rank]
        ELSE LET T1 == IF pivot_row # rank + 1
                       THEN SwapRefs(T, rank + 1, pivot_row) ELSE T
                 prow == h[T1[rank + 1]]
                 others == {T1[r] : r \in (1..Len(T1)) \ {rank + 1}}
                 h1 == [id \in 1..Len(h) |->
                          IF id \in others /\ AboveTol(h[id][col])
                          THEN RowSubtract(h[id], RDiv(h[id][col], prow[col]), prow)
                          ELSE h[id]]
             IN  [heap |-> h1, temp |-> T1, rank |-> rank + 1]

RECURSIVE RankLoop(_, _, _, _)
RankLoop(h, T, rank, col) ==
    IF col > Len(h[T[1]]) THEN [heap |-> h, temp |-> T, rank |-> rank]
    ELSE LET s == RankColumn(h, T, rank, col)
         IN  RankLoop(s.heap, s.temp, s.rank, col + 1)

\* `not matrix or not matrix[0]`
RankEmpty(h, M) == Len(M) = 0 \/ Len(h[M[1]]) = 0

\* check_rank(matrix): the rank, and the heap as the call leaves it.
check_rank(h, M) ==
    IF RankEmpty(h, M) THEN [heap |-> h, rank |-> 0]
    ELSE LET c == CopyRows(h, M)
             s == RankLoop(c.heap, c.temp, 0, 1)
         IN  [heap |-> s.heap, rank |-> s.rank]

\* ----------------------------------------------------------- parse_question
\* An equation text, tokenised the way parse_question splits it: the parts of
\* the left-hand side (after replace('-', '+-') and split('+')), each with its
\* leading sign, its numeric prefix (<<>> when there is none) and its
\* variable name, and the number right of '='.
Alphabet == <<"a", "b", "c", "d", "e", "f", "g", "h", "i", "j", "k", "l">>

Part(sign, digits, var) == [sign |-> sign, digits |-> digits, var |-> var]

Term(coefficient, variable, operator) ==
    [coefficient |-> coefficient, variable |-> variable, operator |-> operator]

ParsePart(part) ==
    Term(IF part.digits = <<>> THEN One ELSE Int2Rat(part.digits[1]),
         part.var,
         IF part.sign = "-" THEN "SUB" ELSE "ADD")

parse_question(equation) ==
    [terms |-> [k \in 1..Len(equation.parts) |-> ParsePart(equation.parts[k])],
     rhs |-> Int2Rat(equation.rhs)]

\* ----------------------------------------------------------- matrix builder
TermVars(parsed) ==
    UNION {{parsed[e].terms[k].variable : k \in 1..Len(parsed[e].terms)} :
           e \in 1..Len(parsed)}

\* sorted(all_vars): single lower-case letters sort in alphabet order.
RECURSIVE SortedFrom(_, _)
SortedFrom(S, k) ==
    IF k > Len(Alphabet) THEN <<>>
    ELSE (IF Alphabet[k] \in S THEN <<Alphabet[k]>> ELSE <<>>) \o SortedFrom(S, k + 1)

Sorted(S) == SortedFrom(S, 1)

\* var_order.index(v)
IndexOf(order, v) == CHOOSE k \in 1..Len(order) : order[k] = v

\* The row of one equation: row[idx] += sign * coefficient, term by term.
RECURSIVE RowFrom(_, _, _, _)
RowFrom(terms, order, k, row) ==
    IF k > Len(terms) THEN row
    ELSE LET idx == IndexOf(order, terms[k].variable)
             signed == IF terms[k].operator = "ADD"
                       THEN terms[k].coefficient
                       ELSE RSub(Zero, terms[k].coefficient)
         IN  RowFrom(terms, order, k + 1,
                     [c \in 1..Len(row) |->
                         IF c = idx THEN RAdd(row[c], signed) ELSE row[c]])

BuildRow(terms, order) == RowFrom(terms, order, 1, [c \in 1..Len(order) |-> Zero])

\* augmented = [row + [b] for row, b in zip(A, B)]
BuildAugmented(parsed, order) ==
    [e \in 1..Len(parsed) |-> Append(BuildRow(parsed[e].terms, order), parsed[e].rhs)]

\* ------------------------------------------- _generate_infinite_solutions
\* First column (among the variable columns) with a nonzero entry; 0 is -1.
RECURSIVE LeadFrom(_, _, _)
LeadFrom(row, num_vars, col) ==
    IF col > num_vars THEN 0
    ELSE IF AboveTol(row[col]) THEN col
    ELSE LeadFrom(row, num_vars, col + 1)

LeadCol(row, num_vars) == LeadFrom(row, num_vars, 1)

InSeq(x, s) == \E k \in 1..Len(s) : s[k] = x

\* pivot_cols, in the order the rows claim them.
RECURSIVE PivotColsFrom(_, _, _, _)
PivotColsFrom(rows, num_vars, r, pivot_cols) ==
    IF r > Len(rows) THEN pivot_cols
    ELSE LET col == LeadCol(rows[r], num_vars)
         IN  PivotColsFrom(rows, num_vars, r + 1,
                 IF col # 0 /\ ~InSeq(col, pivot_cols)
                 THEN Append(pivot_cols, col) ELSE pivot_cols)

PivotCols(rows, num_vars) == PivotColsFrom(rows, num_vars, 1, <<>>)

RECURSIVE FreeFrom(_, _, _)
FreeFrom(order, pivot_cols, k) ==
    IF k > Len(order) THEN <<>>
    ELSE (IF InSeq(k, pivot_cols) THEN <<>> ELSE <<order[k]>>)
         \o FreeFrom(order, pivot_cols, k + 1)

Repeat(v, n) == [k \in 1..n |-> v]

\* The five sample assignments of the free variables.
FreeVarValues(nfree) ==
    IF nfree > 1
    THEN << Repeat(0, nfree), Repeat(1, nfree), Repeat(-1, nfree),
            <<1, 0>> \o Repeat(0, nfree - 2), <<0, 1>> \o Repeat(0, nfree - 2) >>
    ELSE << Repeat(0, nfree), Repeat(1, nfree), Repeat(-1, nfree),
            Repeat(2, nfree), Repeat(-2, nfree) >>

\* rhs -= augmented[row][col] * solution[other_var], for col right of the pivot
RECURSIVE SubstFrom(_, _, _, _, _)
SubstFrom(row, order, solution, col, rhs) ==
    IF col > Len(order) THEN rhs
    ELSE SubstFrom(row, order, solution, col + 1,
             IF order[col] \in DOMAIN solution
             THEN RSub(rhs, RMul(row[col], solution[order[col]]))
             ELSE rhs)

\* Back-substitution, rows last to first.
RECURSIVE BackSubst(_, _, _, _)
BackSubst(rows, order, r, solution) ==
    IF r < 1 THEN solution
    ELSE LET pivot_col == LeadCol(rows[r], Len(order))
             var_name == order[pivot_col]
             rhs == SubstFrom(rows[r], order, solution, pivot_col + 1,
                              rows[r][Len(rows[r])])
         IN  BackSubst(rows, order, r - 1,
                 IF pivot_col # 0 /\ var_name \notin DOMAIN solution
                    /\ AboveTol(rows[r][pivot_col])
                 THEN (var_name :> RDiv(rhs, rows[r][pivot_col])) @@ solution
                 ELSE solution)

\* solution[var] = free_values[j] for the free variables
FreeAssignment(free_vars, free_values) ==
    [v \in {free_vars[j] : j \in 1..Len(free_vars)} |->
        Int2Rat(free_values[IndexOf(free_vars, v)])]

\* Slip: the walk starts at len(augmented) - 2 and misses the last row.
ExampleSolutionSkipLast(rows, order, free_vars, free_values) ==
    BackSubst(rows, order, Len(rows) - 1, FreeAssignment(free_vars, free_values))

ExampleSolution(rows, order, free_vars, free_values) ==
    BackSubst(rows, order, Len(rows), FreeAssignment(free_vars, free_values))

generate_infinite_solutions(h, coef, aug, order) ==
    LET rows == Deref(h, aug)
        pivot_cols == PivotCols(rows, Len(order))
        basic_vars == [k \in 1..Len(pivot_cols) |-> order[pivot_cols[k]]]
        free_vars == FreeFrom(order, pivot_cols, 1)
        samples == FreeVarValues(Len(free_vars))
    IN  [type |-> "infinite",
         basic_variables |-> basic_vars,
         free_variables |-> free_vars,
         example_solutions |->
             [s \in 1..Len(samples) |->
                 ExampleSolution(rows, order, free_vars, samples[s])]]

\* dict(zip(var_order, ret))
ZipDict(order, ret) ==
    [v \in {order[k] : k \in 1..Min(Len(order), Len(ret))} |-> ret[IndexOf(order, v)]]

\* [row[-1] for row in rows] and [row[:-1] for row in rows]
LastColumn(rows) == [r \in 1..Len(rows) |-> rows[r][Len(rows[r])]]
DropLastColumn(rows) == [r \in 1..Len(rows) |-> SubSeq(rows[r], 1, Len(rows[r]) - 1)]

\* ------------------------------------------------------------------ inputs
\* Integer vectors of length c whose absolute values sum to at most w.
RECURSIVE Vectors(_, _)
Vectors(c, w) ==
    IF c = 0 THEN {<<>>}
    ELSE UNION {{<<v>> \o t : t \in Vectors(c - 1, w - Abs(v))} : v \in (-w)..w}

Shapes ==
    {sh \in (1..MaxEqs) \X (1..MaxVars) : sh[1] * (sh[2] + 1) <= MaxCells}

\* The text of coefficient a on variable number j: "x", "-x", "0x", "-2x", ...
DensePart(a, j) ==
    Part(IF a < 0 THEN "-" ELSE "+",
         IF Abs(a) = 1 THEN <<>> ELSE <<Abs(a)>>,
         Alphabet[j])

\* The system whose m equations mention each of the first n variables once,
\* with the entries of v as coefficients and right-hand sides.
DenseSystem(m, n, v) ==
    [e \in 1..m |->
        [parts |-> [j \in 1..n |-> DensePart(v[(e - 1) * (n + 1) + j], j)],
         rhs |-> v[e * (n + 1)]]]

DenseSystems ==
    UNION {{DenseSystem(sh[1], sh[2], v) : v \in Vectors(sh[1] * (sh[2] + 1), MaxWeight)} :
           sh \in Shapes}

\* Short equations: no term at all, a variable missing from an equation, a
\* variable written twice, an explicit numeric prefix.
SparseParts ==
    {Part("+", <<>>, Alphabet[1]), Part("-", <<>>, Alphabet[1]),
     Part("+", <<2>>, Alphabet[2]), Part("+", <<0>>, Alphabet[2])}

RECURSIVE PartSeqs(_)
PartSeqs(k) ==
    IF k = 0 THEN {<<>>}
    ELSE {Append(s, p) : s \in PartSeqs(k - 1), p \in SparseParts}

\* Systems of at most m equations with at most t parts in all.
RECURSIVE SparseFrom(_, _)
SparseFrom(m, t) ==
    IF m = 0 THEN {<<>>}
    ELSE {<<>>} \cup
         UNION {{<<[parts |-> ps, rhs |-> b]>> \o rest :
                    ps \in PartSeqs(k), b \in {0, 1}, rest \in SparseFrom(m - 1, t - k)} :
                k \in 0..t}

SparseSystems == SparseFrom(MaxSparseTerms, MaxSparseTerms)

Systems == DenseSystems \cup SparseSystems

\* ------------------------------------------------------------------- state
VARIABLES
    eq,                 \* the argument of solve_equations_manual
    pc,                 \* position in solve_equations_manual
    parsed_equations,
    all_vars,
    var_order,
    heap,               \* the row objects
    augmented,          \* list of row references
    coefficient,        \* list of row references
    ret,
    i,                  \* gauss_jordan's loop index (1-based)
    frame,              \* "loop" while a check_rank call is running
    temp_matrix,        \* check_rank's local list of row references
    rank,
    col,                \* check_rank's loop index (1-based)
    c_rank_A,
    c_rank_aug,
    result

vars == <<eq, pc, parsed_equations, all_vars, var_order, heap, augmented,
          coefficient, ret, i, frame, temp_matrix, rank, col, c_rank_A,
          c_rank_aug, result>>

Unset == <<>>

Init ==
    /\ eq \in Systems
    /\ pc = "parse"
    /\ parsed_equations = <<>>
    /\ all_vars = {}
    /\ var_order = <<>>
    /\ heap = <<>>
    /\ augmented = <<>>
    /\ coefficient = <<>>
    /\ ret = <<>>
    /\ i = 0
    /\ frame = "none"
    /\ temp_matrix = <<>>
    /\ rank = 0
    /\ col = 0
    /\ c_rank_A = -1
    /\ c_rank_aug = -1
    /\ result = Unset

\* for e in eq: parse_question(e); all_vars.add(term.variable)
Parse ==
    /\ pc = "parse"
    /\ parsed_equations' = [e \in 1..Len(eq) |-> parse_question(eq[e])]
    /\ all_vars' = TermVars(parsed_equations')
    /\ pc' = "build"
    /\ UNCHANGED <<eq, var_order, heap, augmented, coefficient, ret, i, frame,
                   temp_matrix, rank, col, c_rank_A, c_rank_aug, result>>

\* var_order = sorted(all_vars); A, B; augmented
Build ==
    /\ pc = "build"
    /\ var_order' = Sorted(all_vars)
    /\ heap' = BuildAugmented(parsed_equations, var_order')
    /\ augmented' = [r \in 1..Len(parsed_equations) |-> r]
    /\ i' = 1
    /\ pc' = "gauss_jordan"
    /\ UNCHANGED <<eq, parsed_equations, all_vars, coefficient, ret, frame,
                   temp_matrix, rank, col, c_rank_A, c_rank_aug, result>>

\* cols = len(matrix[0]) on an empty list of rows: IndexError, which
\* nothing catches.
GaussJordanRaise ==
    /\ pc = "gauss_jordan"
    /\ Len(augmented) = 0
    /\ pc' = "raised"
    /\ UNCHANGED <<eq, parsed_equations, all_vars, var_order, heap, augmented,
                   coefficient, ret, i, frame, temp_matrix, rank, col,
                   c_rank_A, c_rank_aug, result>>

\* One iteration of gauss_jordan's pivot loop.
GaussJordanStep ==
    /\ pc = "gauss_jordan"
    /\ Len(augmented) > 0
    /\ i <= GJIterations(heap, augmented)
    /\ LET s == GJIteration(heap, augmented, i)
       IN  /\ heap' = s.heap
           /\ augmented' = s.M
    /\ i' = i + 1
    /\ UNCHANGED <<eq, pc, parsed_equations, all_vars, var_order, coefficient,
                   ret, frame, temp_matrix, rank, col, c_rank_A, c_rank_aug,
                   result>>

\* gauss_jordan returns; ret = last column; coefficient = [row[:-1] ...]
GaussJordanReturn ==
    /\ pc = "gauss_jordan"
    /\ Len(augmented) > 0
    /\ i > GJIterations(heap, augmented)
    /\ ret' = LastColumn(Deref(heap, augmented))
    /\ heap' = Alloc(heap, DropLastColumn(Deref(heap, augmented)))
    /\ coefficient' = NewRefs(heap, Len(augmented))
    /\ pc' = "rank_A"
    /\ UNCHANGED <<eq, parsed_equations, all_vars, var_order, augmented, i,
                   frame, temp_matrix, rank, col, c_rank_A, c_rank_aug, result>>

RankArg == IF pc = "rank_A" THEN coefficient ELSE augmented

\* What the caller does with the value check_rank returns.
RankAssign(value) ==
    /\ IF pc = "rank_A"
       THEN c_rank_A' = value /\ pc' = "rank_aug" /\ UNCHANGED c_rank_aug
       ELSE c_rank_aug' = value /\ pc' = "classify" /\ UNCHANGED c_rank_A

\* check_rank is entered: the early return, or the copy.
RankBegin ==
    /\ pc \in {"rank_A", "rank_aug"}
    /\ frame = "none"
    /\ IF RankEmpty(heap, RankArg)
       THEN /\ RankAssign(0)
            /\ UNCHANGED <<heap, frame, temp_matrix, rank, col>>
       ELSE /\ LET c == CopyRows(heap, RankArg)
               IN  /\ heap' = c.heap
                   /\ temp_matrix' = c.temp
            /\ rank' = 0
            /\ col' = 1
            /\ frame' = "loop"
            /\ UNCHANGED <<pc, c_rank_A, c_rank_aug>>
    /\ UNCHANGED <<eq, parsed_equations, all_vars, var_order, augmented,
                   coefficient, ret, i, result>>

\* One iteration of check_rank's column loop.
RankStep ==
    /\ frame = "loop"
    /\ col <= Len(heap[temp_matrix[1]])
    /\ LET s == RankColumn(heap, temp_matrix, rank, col)
       IN  /\ heap' = s.heap
           /\ temp_matrix' = s.temp
           /\ rank' = s.rank
    /\ col' = col + 1
    /\ UNCHANGED <<eq, pc, parsed_equations, all_vars, var_order, augmented,
                   coefficient, ret, i, frame, c_rank_A, c_rank_aug, result>>

\* check_rank returns rank; its locals go away.
RankReturn ==
    /\ frame = "loop"
    /\ col > Len(heap[temp_matrix[1]])
    /\ RankAssign(rank)
    /\ temp_matrix' = <<>>
    /\ rank' = 0
    /\ col' = 0
    /\ frame' = "none"
    /\ UNCHANGED <<eq, parsed_equations, all_vars, var_order, heap, augmented,
                   coefficient, ret, i, result>>

NoSolutionResult == <<>>

\* The three branches of the classifier.
Classify ==
    /\ pc = "classify"
    /\ pc' = "done"
    /\ LET c_num_vars == Len(heap[coefficient[1]])
       IN  \/ /\ c_rank_A # c_rank_aug
              /\ result' = NoSolutionResult
              /\ UNCHANGED heap
           \/ /\ c_rank_A = c_rank_aug
              /\ c_rank_A < c_num_vars
              /\ LET rk == check_rank(heap, coefficient)
                 IN  /\ heap' = rk.heap
                     /\ result' = generate_infinite_solutions(rk.heap, coefficient,
                                                              augmented, var_order)
           \/ /\ c_rank_A = c_rank_aug
              /\ c_rank_A >= c_num_vars
              /\ result' = ZipDict(var_order, ret)
              /\ UNCHANGED heap
    /\ UNCHANGED <<eq, parsed_equations, all_vars, var_order, augmented,
                   coefficient, ret, i, frame, temp_matrix, rank, col,
                   c_rank_A, c_rank_aug>>

Next ==
    \/ Parse
    \/ Build
    \/ GaussJordanRaise
    \/ GaussJordanStep
    \/ GaussJordanReturn
    \/ RankBegin
    \/ RankStep
    \/ RankReturn
    \/ Classify

Spec == Init /\ [][Next]_vars

\* check_rank on its own: lines 190-193 applied to the matrix as built,
\* without the reduction, so that the argument is any matrix of the family.
InitRank ==
    /\ eq \in Systems \ {<<>>}
    /\ parsed_equations = [e \in 1..Len(eq) |-> parse_question(eq[e])]
    /\ all_vars = TermVars(parsed_equations)
    /\ var_order = Sorted(all_vars)
    /\ LET rows == BuildAugmented(parsed_equations, var_order)
       IN  /\ heap = Alloc(rows, DropLastColumn(rows))
           /\ augmented = [r \in 1..Len(rows) |-> r]
           /\ coefficient = NewRefs(rows, Len(rows))
           /\ ret = LastColumn(rows)
    /\ pc = "rank_A"
    /\ i = 0
    /\ frame = "none"
    /\ temp_matrix = <<>>
    /\ rank = 0
    /\ col = 0
    /\ c_rank_A = -1
    /\ c_rank_aug = -1
    /\ result = Unset

NextRank ==
    \/ RankBegin
    \/ RankStep
    \/ RankReturn

SpecRank == InitRank /\ [][NextRank]_vars

\* ------------------------------------------------------------- properties
NumVars == Len(var_order)
VarSet == {var_order[k] : k \in 1..Len(var_order)}
SeqSet(q) == {q[k] : k \in 1..Len(q)}

\* The equations as the matrix builder reads them: [A|B] before reduction.
Original == BuildAugmented(parsed_equations, var_order)

\* The reduced matrix, once gauss_jordan has returned.
Reduced == Deref(heap, augmented)
AfterGaussJordan == pc \in {"rank_A", "rank_aug", "classify", "done"}

TookNoSolution == c_rank_A # c_rank_aug
TookInfinite == c_rank_A = c_rank_aug /\ c_rank_A < NumVars
TookUnique == c_rank_A = c_rank_aug /\ c_rank_A >= NumVars

\* solution.get(var, 0)
Lookup(sol, v) == IF v \in DOMAIN sol THEN sol[v] ELSE Zero

\* Sum over the variables of coefficient * assigned value.
RECURSIVE DotFrom(_, _, _, _)
DotFrom(row, order, sol, k) ==
    IF k > Len(order) THEN Zero
    ELSE RAdd(RMul(row[k], Lookup(sol, order[k])), DotFrom(row, order, sol, k + 1))

\* Substituting sol into every original equation yields equality.
Satisfies(sol) ==
    \A e \in 1..Len(Original) :
        DotFrom(Original[e], var_order, sol, 1) = Original[e][NumVars + 1]

WellFormed == \A e \in 1..Len(eq) : Len(eq[e].parts) >= 1
HasEmptyEquation == \E e \in 1..Len(eq) : Len(eq[e].parts) = 0

\* What a caller can read off the returned value.
SignalsNoSolution == DOMAIN result = {}
SignalsInfinite == "type" \in DOMAIN result
SignalsUnique == DOMAIN result # {} /\ "type" \notin DOMAIN result

\* C1: every example solution of an infinite-solutions result satisfies
\* every original equation.
C1_ExamplesSatisfy ==
    (pc = "done" /\ TookInfinite) =>
        \A s \in 1..Len(result.example_solutions) :
            Satisfies(result.example_solutions[s])

\* C2: a unique-solution result satisfies every original equation, and the
\* first len(var_order) rows of the reduced matrix are the identity.
C2_UniqueSatisfies ==
    (pc = "done" /\ TookUnique) =>
        /\ DOMAIN result = VarSet
        /\ Satisfies(result)
        /\ \A r \in 1..NumVars : \A c \in 1..NumVars :
               Reduced[r][c] = IF r = c THEN One ELSE Zero

C2_Witness ==
    /\ pc = "done"
    /\ TookUnique
    /\ NumVars >= 2
    /\ Len(augmented) > NumVars
    /\ \E v \in VarSet : result[v] # Zero

\* C3: for a well-formed input the call returns, and the returned value
\* signals exactly the outcome that the classifier chose.
C3_ExactlyOneOutcome ==
    WellFormed =>
        /\ pc # "raised"
        /\ pc = "done" =>
              /\ TookNoSolution <=> SignalsNoSolution
              /\ TookInfinite <=> SignalsInfinite
              /\ TookUnique <=> SignalsUnique

\* C4: an input with an equation of zero terms gets no classification result.
C4_NoResultForEmptyEquation == ~(HasEmptyEquation /\ pc = "done")

\* C5: inside check_rank the rank counter exceeds neither the number of rows
\* nor the number of columns processed so far, and
\* rank(A) <= rank([A|B]) <= min(rows, cols) of [A|B].
C5_RankBounds ==
    /\ frame = "loop" => (rank <= Len(temp_matrix) /\ rank <= col - 1)
    /\ pc = "classify" =>
          /\ c_rank_A <= c_rank_aug
          /\ c_rank_aug <= Min(Len(augmented), Len(heap[augmented[1]]))

C5_Witness ==
    /\ pc = "classify"
    /\ WellFormed
    /\ c_rank_A >= 1
    /\ c_rank_A < c_rank_aug
    /\ c_rank_aug = Len(augmented)

\* C6: running gauss_jordan again on the matrix it returned changes neither
\* an entry nor the row order.
C6_Idempotent ==
    (pc = "rank_A" /\ frame = "none") =>
        LET again == gauss_jordan(heap, augmented)
        IN  /\ again.M = augmented
            /\ Deref(again.heap, again.M) = Reduced

\* A pivot column was skipped: some row leads off the diagonal.
C6_Witness ==
    /\ pc = "rank_A"
    /\ WellFormed
    /\ frame = "none"
    /\ Reduced # Original
    /\ \E r \in 1..Len(Reduced) : LeadCol(Reduced[r], NumVars) \notin {0, r}

\* C7: after gauss_jordan every row with a nonzero coefficient entry leads
\* with 1, and that entry is the only nonzero one in its column.
C7_ReducedRowEchelon ==
    AfterGaussJordan =>
        \A r \in 1..Len(Reduced) :
            LET lead == LeadCol(Reduced[r], NumVars)
            IN  lead # 0 =>
                  /\ Reduced[r][lead] = One
                  /\ \A q \in (1..Len(Reduced)) \ {r} : Reduced[q][lead] = Zero

\* C8: no step of a check_rank call (the two of solve_equations_manual and
\* the one of _generate_infinite_solutions) changes the caller's matrices.
C8_RankKeepsCaller ==
    [][(pc \in {"rank_A", "rank_aug", "classify"}) =>
          (/\ augmented' = augmented
           /\ coefficient' = coefficient
           /\ Deref(heap', augmented) = Deref(heap, augmented)
           /\ Deref(heap', coefficient) = Deref(heap, coefficient))]_vars

\* check_rank has changed its private copy.
C8_Witness ==
    /\ frame = "loop"
    /\ WellFormed
    /\ SeqSet(Deref(heap, temp_matrix)) # SeqSet(Deref(heap, RankArg))

\* C9: each of the five example solutions assigns every variable, and each
\* free variable holds its sample value.
C9_TotalAssignments ==
    (pc = "done" /\ TookInfinite) =>
        LET free == result.free_variables
            samples == FreeVarValues(Len(free))
        IN  /\ Len(result.example_solutions) = 5
            /\ \A s \in 1..5 :
                  /\ DOMAIN result.example_solutions[s] = VarSet
                  /\ \A j \in 1..Len(free) :
                        result.example_solutions[s][free[j]] = Int2Rat(samples[s][j])

C9_Witness ==
    /\ pc = "done"
    /\ TookInfinite
    /\ Len(result.free_variables) >= 2
    /\ Len(result.basic_variables) >= 1
    /\ \E v \in SeqSet(result.basic_variables) :
           result.example_solutions[2][v] # result.example_solutions[1][v]

\* C10: basic and free variables partition var_order, and there are rank(A)
\* basic variables.
C10_BasicCountIsRank ==
    (pc = "done" /\ TookInfinite) =>
        /\ SeqSet(result.basic_variables) \cap SeqSet(result.free_variables) = {}
        /\ SeqSet(result.basic_variables) \cup SeqSet(result.free_variables) = VarSet
        /\ Len(result.basic_variables) = c_rank_A
        /\ Len(result.free_variables) = NumVars - c_rank_A

====
